---- MODULE Spec2Model ----
(***************************************************************************)
(* prbot (src/prbot/main.py): a click command group with three commands,  *)
(* generate-pr, setup-openai and setup-github.  Every invocation of the   *)
(* program is one process: the module is imported (load_config() runs),   *)
(* one command runs to its end, the process exits.  The model keeps what  *)
(* outlives a process (the config file, the invoking shell's environment, *)
(* the local repository, the pull requests and branches on the host) and  *)
(* the locals of the command that is running.                             *)
(*                                                                         *)
(* Python strings that the code takes apart (the origin URL) are          *)
(* sequences of one-character strings; a Python value whose type matters  *)
(* is a record [type, val].                                                *)
(***************************************************************************)
EXTENDS Integers, Sequences, FiniteSets, TLC

\* ------------------------------------------------------------------ bounds
\* generate-pr invocations in one behaviour.
MaxRuns == 2
\* lines the setup commands may append to the config file in one behaviour.
MaxLines == 2

\* ------------------------------------------------------------- value sets
Unset == "<unset>"
None == "<None>"
Keys == {"GITHUB_TOKEN", "OPENAI_API_KEY"}
\* values given to setup-github --token
Tokens == {"a", "b"}
\* values given to setup-openai --api-key
ApiKeys == {"k"}
\* what the invoking shell exports (an exported variable may be empty)
ShellEnvirons ==
    {[GITHUB_TOKEN |-> Unset, OPENAI_API_KEY |-> Unset],
     [GITHUB_TOKEN |-> Unset, OPENAI_API_KEY |-> "e"],
     [GITHUB_TOKEN |-> "", OPENAI_API_KEY |-> "e"],
     [GITHUB_TOKEN |-> "e", OPENAI_API_KEY |-> "e"]}
Branches == {"feature-x"}
Detached == "<detached HEAD>"
DiffTexts == {"", "+add line"}
\* the local repository: the checked-out branch and its diff against origin/main
Repos ==
    {[branch |-> Detached, diff |-> ""]}
    \cup {[branch |-> b, diff |-> d] : b \in Branches, d \in DiffTexts}
\* message.content values the chat completion may return
Descriptions == {"d1", "d2"}
\* the number of choices a chat completion may carry
MaxChoices == 2

VARIABLES
    \* ---- what outlives a process
    os_name,        \* os.name of the platform
    os_environ,     \* the environment the shell hands to every process
    config_exists,  \* os.path.exists(config_file)
    config,         \* the config file's lines, each [key, value]
    active_branch,  \* the checked-out branch of Repo("."), or Detached
    repo_diff,      \* what git diff origin/main...<branch> gives
    origin,         \* [host, owner, name, url]: the origin remote
    pulls,          \* the host's pull requests, in creation order
    pushed,         \* branches pushed to origin
    runs,           \* generate-pr invocations finished so far
    prev,           \* a summary of the last finished generate-pr invocation
    \* ---- the running process
    pc,             \* position in the program
    environ,        \* os.environ of the process
    token, branch_name, diff, client, temp_file, file_id, pr_description,
    exc,            \* the exception in flight, or None
    calls,          \* every call the command made outside the process
    output,         \* what click.echo printed
    exit            \* how the process ended: None, "ok" or "error"

persistent == <<os_name, os_environ, config_exists, config, active_branch,
                repo_diff, origin, pulls, pushed, runs, prev>>
locals == <<environ, token, branch_name, diff, client, temp_file, file_id,
            pr_description, exc, calls, output, exit>>
vars == <<persistent, pc, locals>>

\* --------------------------------------------------------- Python strings
https == <<"h", "t", "t", "p", "s", ":", "/", "/">>
dotgit == <<".", "g", "i", "t">>
slash == <<"/">>

\* str.find: the first index at which sep occurs in s, 0 if none
Find(s, sep) ==
    LET hits == {i \in 1..(Len(s) - Len(sep) + 1) :
                    SubSeq(s, i, i + Len(sep) - 1) = sep}
    IN IF hits = {} THEN 0 ELSE CHOOSE i \in hits : \A j \in hits : i <= j

\* str.split(sep): the pieces between the occurrences of sep, left to right
RECURSIVE split(_, _)
split(s, sep) ==
    LET i == Find(s, sep)
    IN IF i = 0 THEN <<s>>
       ELSE <<SubSeq(s, 1, i - 1)>> \o split(SubSeq(s, i + Len(sep), Len(s)), sep)

\* l[-2:]
LastTwo(l) == IF Len(l) <= 2 THEN l ELSE SubSeq(l, Len(l) - 1, Len(l))

\* main.py:97  local_repo.remotes.origin.url.split(".git")[0].split("/")[-2:]
\* The value is the list of the two segments; nothing joins them.
RepoIdentity(url) ==
    [type |-> "list", val |-> LastTwo(split(split(url, dotgit)[1], slash))]

\* ------------------------------------------------------------ config file
\* main.py:11-19
get_config_dir ==
    IF os_name = "nt" THEN <<"%APPDATA%", "prbot">>
    ELSE <<"~", ".config", "prbot">>

\* A first-wins parse of the file.
FirstValue(lines, k) ==
    LET at == {i \in 1..Len(lines) : lines[i].key = k}
    IN IF at = {} THEN Unset
       ELSE lines[CHOOSE i \in at : \A j \in at : i <= j].value

\* dotenv's parse of the file: the value of the last line that sets key k
LastValue(lines, k) ==
    LET at == {i \in 1..Len(lines) : lines[i].key = k}
    IN IF at = {} THEN Unset
       ELSE lines[CHOOSE i \in at : \A j \in at : j <= i].value

\* main.py:26  load_dotenv(config_file): override is left at its default,
\* False, so a variable the environment already holds keeps its value.
load_dotenv(env, lines) ==
    [k \in Keys |->
        IF env[k] # Unset THEN env[k]
        ELSE LastValue(lines, k)]

\* main.py:22-26
load_config(env) ==
    IF config_exists THEN load_dotenv(env, config) ELSE env

\* main.py:118-119, 130-131  open(config_file, "a"); f.write(f"{key}={value}\n")
AppendLine(key, value) ==
    /\ config' = Append(config, [key |-> key, value |-> value])
    /\ config_exists' = TRUE

\* ------------------------------------------------------------------- Init
Origins ==
    {[host |-> h, owner |-> o, name |-> n,
      url |-> https \o h \o slash \o o \o slash \o n \o dotgit] :
        h \in {<<"h">>, <<"w", ".", "g", "i", "t", "h">>},
        o \in {<<"o">>},
        n \in {<<"r">>}}

PullRequest(title, body, head, base) ==
    [title |-> title, body |-> body, head |-> head, base |-> base, state |-> "open"]

Title(branch) == <<"PR for ", branch>>

NoRun == [exit |-> None, had_pull |-> FALSE, created |-> 0]

FreshLocals ==
    /\ environ = os_environ
    /\ token = None
    /\ branch_name = None
    /\ diff = None
    /\ client = None
    /\ temp_file = None
    /\ file_id = None
    /\ pr_description = None
    /\ exc = None
    /\ calls = <<>>
    /\ output = <<>>
    /\ exit = None

ResetLocals ==
    /\ environ' = os_environ
    /\ token' = None
    /\ branch_name' = None
    /\ diff' = None
    /\ client' = None
    /\ temp_file' = None
    /\ file_id' = None
    /\ pr_description' = None
    /\ exc' = None
    /\ calls' = <<>>
    /\ output' = <<>>
    /\ exit' = None

Init ==
    /\ os_name \in {"posix", "nt"}
    /\ os_environ \in ShellEnvirons
    /\ config_exists = FALSE
    /\ config = <<>>
    /\ \E r \in Repos : active_branch = r.branch /\ repo_diff = r.diff
    /\ origin \in Origins
    /\ pulls \in {<<>>} \cup {<<PullRequest(Title(b), "old", b, "main")>> : b \in Branches}
    /\ pushed = {}
    /\ runs = 0
    /\ prev = NoRun
    /\ pc = "shell"
    /\ FreshLocals

\* ------------------------------------------------------- the setup commands
\* main.py:113-120.  One process: import, append, echo, exit.
setup_openai(api_key) ==
    /\ pc = "shell"
    /\ Len(config) < MaxLines
    /\ AppendLine("OPENAI_API_KEY", api_key)
    /\ UNCHANGED <<os_name, os_environ, active_branch, repo_diff, origin, pulls,
                   pushed, runs, prev, pc, locals>>

\* main.py:123-132
setup_github(tok) ==
    /\ pc = "shell"
    /\ Len(config) < MaxLines
    /\ AppendLine("GITHUB_TOKEN", tok)
    /\ UNCHANGED <<os_name, os_environ, active_branch, repo_diff, origin, pulls,
                   pushed, runs, prev, pc, locals>>

\* ------------------------------------------------------------ generate-pr
Call(op, ok, arg) == [op |-> op, ok |-> ok, arg |-> arg]

\* Only an unset variable counts as missing (`token is None`).
TokenMissingOnlyUnset(t) == t = Unset

\* main.py:43  `not token`
TokenMissing(t) == t = Unset \/ t = ""

\* The empty-diff test left out.
NoChangesNever(d) == FALSE

\* main.py:53  `not diff`
NoChanges(d) == d = ""

\* The last choice taken instead of the first.
LastChoice(choices) == choices[Len(choices)]

\* main.py:86  response.choices[0].message.content
FirstChoice(choices) == choices[1]

\* A raising statement treated as one that returns.
AfterAlwaysContinue(ok, next) == next

\* main.py:67-107  a statement of the try block that returns goes on to the
\* next statement; one that raises leaves the block for the finally clause.
After(ok, next) == IF ok THEN next ELSE "unlink"

\* main.py:60-62, 108  os.unlink(temp_file.name) runs inside the with block,
\* while temp_file is still open.  POSIX removes the name of an open file; on
\* Windows (os.name == "nt", the platform get_config_dir provides for) a file
\* that is open without FILE_SHARE_DELETE cannot be removed, and os.unlink
\* raises PermissionError.
UnlinkSucceeds == os_name # "nt"

\* The exception in flight swallowed.
ExitStatusSwallowed(e) == "ok"

\* main.py:107-110  nothing catches: the exception in flight when the finally
\* clause ends leaves generate_pr and the process exits with an error.
ExitStatus(e) == IF e = None THEN "ok" ELSE "error"

\* main.py:29  the module is imported for a generate-pr invocation
Import ==
    /\ pc = "shell"
    /\ runs < MaxRuns
    /\ environ' = load_config(os_environ)
    /\ pc' = "generate_pr"
    /\ UNCHANGED <<persistent, token, branch_name, diff, client, temp_file,
                   file_id, pr_description, exc, calls, output, exit>>

\* main.py:42-45
RequireToken ==
    /\ pc = "generate_pr"
    /\ token' = environ["GITHUB_TOKEN"]
    /\ IF TokenMissing(token')
       THEN /\ output' = Append(output, "GitHub token not found in .env file.")
            /\ pc' = "done"
            /\ exit' = "ok"
       ELSE /\ pc' = "Repo"
            /\ UNCHANGED <<output, exit>>
    /\ UNCHANGED <<persistent, environ, branch_name, diff, client, temp_file,
                   file_id, pr_description, exc, calls>>

\* main.py:47-50  Github(token) opens no connection; Repo(".") and
\* active_branch.name read the repository, and active_branch raises
\* TypeError on a detached HEAD.
OpenRepo ==
    /\ pc = "Repo"
    /\ IF active_branch = Detached
       THEN /\ calls' = calls \o <<Call("Repo", TRUE, "."),
                                   Call("active_branch", FALSE, None)>>
            /\ exc' = "TypeError"
            /\ pc' = "done"
            /\ exit' = "error"
            /\ UNCHANGED branch_name
       ELSE /\ calls' = calls \o <<Call("Repo", TRUE, "."),
                                   Call("active_branch", TRUE, None)>>
            /\ branch_name' = active_branch
            /\ pc' = "diff"
            /\ UNCHANGED <<exc, exit>>
    /\ UNCHANGED <<persistent, environ, token, diff, client, temp_file, file_id,
                   pr_description, output>>

\* main.py:51-55
Diff ==
    /\ pc = "diff"
    /\ diff' = repo_diff
    /\ calls' = Append(calls, Call("git.diff", TRUE, <<"origin/main...", branch_name>>))
    /\ IF NoChanges(diff')
       THEN /\ output' = Append(output, "No changes found.")
            /\ pc' = "done"
            /\ exit' = "ok"
       ELSE /\ pc' = "OpenAI"
            /\ UNCHANGED <<output, exit>>
    /\ UNCHANGED <<persistent, environ, token, branch_name, client, temp_file,
                   file_id, pr_description, exc>>

\* main.py:58  OpenAI() takes the key from OPENAI_API_KEY and raises
\* OpenAIError when the variable is not set.
CreateClient ==
    /\ pc = "OpenAI"
    /\ IF environ["OPENAI_API_KEY"] = Unset
       THEN /\ exc' = "OpenAIError"
            /\ pc' = "done"
            /\ exit' = "error"
            /\ UNCHANGED client
       ELSE /\ client' = "OpenAI"
            /\ pc' = "tempfile"
            /\ UNCHANGED <<exc, exit>>
    /\ UNCHANGED <<persistent, environ, token, branch_name, diff, temp_file,
                   file_id, pr_description, calls, output>>

\* main.py:60-66
WriteTempFile ==
    /\ pc = "tempfile"
    /\ temp_file' = "exists"
    /\ file_id' = None
    /\ pc' = "files.create"
    /\ UNCHANGED <<persistent, environ, token, branch_name, diff, client,
                   pr_description, exc, calls, output, exit>>

\* main.py:68-71
FilesCreate ==
    /\ pc = "files.create"
    /\ \E ok \in BOOLEAN :
        /\ calls' = Append(calls, Call("files.create", ok, diff))
        /\ file_id' = IF ok THEN "file-1" ELSE file_id
        /\ exc' = IF ok THEN exc ELSE "APIError"
        /\ pc' = After(ok, "chat")
    /\ UNCHANGED <<persistent, environ, token, branch_name, diff, client,
                   temp_file, pr_description, output, exit>>

\* main.py:73-88
Responses == UNION {[1..n -> Descriptions] : n \in 1..MaxChoices}

ChatCompletion ==
    /\ pc = "chat"
    /\ \/ \E choices \in Responses :
            /\ calls' = Append(calls, Call("chat.completions.create", TRUE,
                                           [file |-> file_id, branch |-> branch_name,
                                            choices |-> choices]))
            /\ pr_description' = FirstChoice(choices)
            /\ output' = Append(output, "Generated PR description:")
            /\ pc' = After(TRUE, "push")
            /\ UNCHANGED exc
       \/ /\ calls' = Append(calls, Call("chat.completions.create", FALSE,
                                         [file |-> file_id, branch |-> branch_name,
                                          choices |-> <<>>]))
          /\ exc' = "APIError"
          /\ pc' = After(FALSE, "push")
          /\ UNCHANGED <<pr_description, output>>
    /\ UNCHANGED <<persistent, environ, token, branch_name, diff, client,
                   temp_file, file_id, exit>>

\* main.py:90-93
Push ==
    /\ pc = "push"
    /\ \E ok \in BOOLEAN :
        /\ calls' = Append(calls, Call("push", ok, branch_name))
        /\ pushed' = IF ok THEN pushed \cup {branch_name} ELSE pushed
        /\ output' = IF ok THEN Append(output, "Pushed branch") ELSE output
        /\ exc' = IF ok THEN exc ELSE "GitCommandError"
        /\ pc' = After(ok, "get_repo")
    /\ UNCHANGED <<os_name, os_environ, config_exists, config, active_branch,
                   repo_diff, origin, pulls, runs, prev, environ, token,
                   branch_name, diff, client, temp_file, file_id, pr_description,
                   exit>>

\* main.py:96-98
GetRepo ==
    /\ pc = "get_repo"
    /\ \E ok \in BOOLEAN :
        /\ calls' = Append(calls, Call("get_repo", ok, RepoIdentity(origin.url)))
        /\ exc' = IF ok THEN exc ELSE "GithubException"
        /\ pc' = After(ok, "create_pull")
    /\ UNCHANGED <<persistent, environ, token, branch_name, diff, client,
                   temp_file, file_id, pr_description, output, exit>>

\* main.py:99-105  create_pull is called whether or not the branch already
\* has an open pull request; the host may refuse it.
CreatePull ==
    /\ pc = "create_pull"
    /\ \E ok \in BOOLEAN :
        LET pr == PullRequest(Title(branch_name), pr_description, branch_name, "main")
        IN /\ calls' = Append(calls, Call("create_pull", ok, pr))
           /\ pulls' = IF ok THEN Append(pulls, pr) ELSE pulls
           /\ output' = IF ok THEN Append(output, "Created PR") ELSE output
           /\ exc' = IF ok THEN exc ELSE "GithubException"
           /\ pc' = After(ok, "unlink")
    /\ UNCHANGED <<os_name, os_environ, config_exists, config, active_branch,
                   repo_diff, origin, pushed, runs, prev, environ, token,
                   branch_name, diff, client, temp_file, file_id, pr_description,
                   exit>>

\* main.py:107-108  the finally clause: an exception raised in it replaces
\* the one in flight and skips the rest of the clause.
Unlink ==
    /\ pc = "unlink"
    /\ calls' = Append(calls, Call("os.unlink", UnlinkSucceeds, None))
    /\ IF UnlinkSucceeds
       THEN /\ temp_file' = "deleted"
            /\ pc' = "files.delete"
            /\ UNCHANGED <<exc, exit>>
       ELSE /\ exc' = "PermissionError"
            /\ pc' = "done"
            /\ exit' = "error"
            /\ UNCHANGED temp_file
    /\ UNCHANGED <<persistent, environ, token, branch_name, diff, client,
                   file_id, pr_description, output>>

\* main.py:109-110, and the end of the command: the exception in flight, if
\* any, leaves generate_pr and ends the process with an error.
FilesDelete ==
    /\ pc = "files.delete"
    /\ IF file_id # None
       THEN \E ok \in BOOLEAN :
                /\ calls' = Append(calls, Call("files.delete", ok, file_id))
                /\ exc' = IF ok THEN exc ELSE "APIError"
       ELSE UNCHANGED <<calls, exc>>
    /\ exit' = ExitStatus(exc')
    /\ pc' = "done"
    /\ UNCHANGED <<persistent, environ, token, branch_name, diff, client,
                   temp_file, file_id, pr_description, output>>

Count(log, op) == Cardinality({i \in 1..Len(log) : log[i].op = op})

\* pull requests this invocation added to the host
Created(log) == Cardinality({i \in 1..Len(log) : log[i].op = "create_pull" /\ log[i].ok})

\* repo.get_pulls(state="open", head=branch), as the host would answer it
OpenPullsFor(branch) ==
    SelectSeq(pulls, LAMBDA pr : pr.head = branch /\ pr.state = "open")

\* The process is gone; the shell has its prompt back.
ProcessExit ==
    /\ pc = "done"
    /\ runs' = runs + 1
    /\ prev' = [exit |-> exit,
                 had_pull |-> Len(OpenPullsFor(active_branch)) > Created(calls),
                 created |-> Created(calls)]
    /\ pc' = "shell"
    /\ ResetLocals
    /\ UNCHANGED <<os_name, os_environ, config_exists, config, active_branch,
                   repo_diff, origin, pulls, pushed>>

Next ==
    \/ \E k \in ApiKeys : setup_openai(k)
    \/ \E t \in Tokens : setup_github(t)
    \/ Import
    \/ RequireToken
    \/ OpenRepo
    \/ Diff
    \/ CreateClient
    \/ WriteTempFile
    \/ FilesCreate
    \/ ChatCompletion
    \/ Push
    \/ GetRepo
    \/ CreatePull
    \/ Unlink
    \/ FilesDelete
    \/ ProcessExit

Spec == Init /\ [][Next]_vars

\* ---------------------------------------------------------------- claims
NetworkOps == {"files.create", "chat.completions.create", "push", "get_repo",
               "create_pull", "edit", "files.delete"}
WorkflowOps == {"files.create", "chat.completions.create", "push", "get_repo",
                "create_pull", "edit"}
RepoOps == {"Repo", "active_branch", "git.diff"}
Ops(log) == {log[i].op : i \in 1..Len(log)}
Succeeded(log, op) == \E i \in 1..Len(log) : log[i].op = op /\ log[i].ok
Failed(log, op) == \E i \in 1..Len(log) : log[i].op = op /\ ~log[i].ok
AllNetworkOk(log) == \A i \in 1..Len(log) : log[i].op \in NetworkOps => log[i].ok
IsPrefix(s, t) == Len(s) <= Len(t) /\ SubSeq(t, 1, Len(s)) = s
\* the branch had an open pull request when this invocation started
HadPullAtStart == Len(OpenPullsFor(branch_name)) > Created(calls)

\* C1: when the diff of origin/main...<branch> comes back empty, the run is
\* over at once: it has ended normally, its last output is the no-changes
\* message, and it has made no network call (no upload, chat completion, push,
\* get-repository, create or update of a pull request, remote delete).
C1_EmptyDiffHalts ==
    diff = "" =>
        /\ pc = "done"
        /\ exit = "ok"
        /\ output = <<"No changes found.">>
        /\ Ops(calls) \cap NetworkOps = {}
        /\ exc = None

C1_Witness ==
    /\ pc = "done"
    /\ diff = ""
    /\ token \in {"a", "b", "e"}
    /\ Succeeded(calls, "git.diff")

\* C2: when the effective GITHUB_TOKEN (the process environment after
\* load_config) is unset or empty, the command ends normally with the
\* token-not-found message and has made no call at all: it never opened the
\* repository, looked up the branch, computed a diff or used the network.
C2_MissingTokenHalts ==
    (pc \notin {"shell", "generate_pr"} /\ environ["GITHUB_TOKEN"] \in {Unset, ""}) =>
        /\ pc = "done"
        /\ exit = "ok"
        /\ output = <<"GitHub token not found in .env file.">>
        /\ calls = <<>>
        /\ branch_name = None
        /\ diff = None

C2_Witness ==
    /\ pc = "done"
    /\ environ["GITHUB_TOKEN"] = ""
    /\ exit = "ok"
    /\ calls = <<>>

\* C3: two generate-pr runs in succession on the same branch with the same
\* non-empty diff, the first one starting with no open pull request for the
\* branch and creating one: when the second run has reached the pull-request
\* step and ended, the branch has exactly one open pull request, its body is
\* the second run's description, and the second run issued no create call.
C3_Idempotent ==
    (/\ pc = "done"
     /\ prev.exit = "ok" /\ prev.created = 1 /\ ~prev.had_pull
     /\ Succeeded(calls, "get_repo")) =>
        /\ Len(OpenPullsFor(branch_name)) = 1
        /\ OpenPullsFor(branch_name)[1].body = pr_description
        /\ Count(calls, "create_pull") = 0

\* C4: a run with a non-empty diff that reaches the pull-request step while
\* the branch already has an open pull request issues no create call and
\* exactly one body update, which sets the body to the generated description.
C4_UpdateExisting ==
    (/\ pc = "done"
     /\ Succeeded(calls, "get_repo")
     /\ HadPullAtStart) =>
        /\ Count(calls, "create_pull") = 0
        /\ Count(calls, "edit") = 1
        /\ \A i \in 1..Len(OpenPullsFor(branch_name)) :
              OpenPullsFor(branch_name)[i].body = pr_description

\* C5: a finished run with a token, a non-empty diff, a language-model client,
\* no failed network call and no open pull request for the branch at its start
\* has issued exactly one create_pull call, with title "PR for <branch>", the
\* body equal to the content of the first choice of the chat completion, head
\* the branch and base "main", and no update call.
C5_CreateOnce ==
    (/\ pc = "done"
     /\ client # None
     /\ diff \notin {None, ""}
     /\ AllNetworkOk(calls)
     /\ ~HadPullAtStart) =>
        /\ Count(calls, "create_pull") = 1
        /\ Count(calls, "edit") = 0
        /\ \A i, j \in 1..Len(calls) :
              (calls[i].op = "create_pull" /\ calls[j].op = "chat.completions.create") =>
                  /\ calls[i].arg.title = <<"PR for ", active_branch>>
                  /\ calls[i].arg.body = calls[j].arg.choices[1]
                  /\ calls[i].arg.head = active_branch
                  /\ calls[i].arg.base = "main"
                  /\ pulls[Len(pulls)] = calls[i].arg

C5_Witness ==
    /\ pc = "done"
    /\ exit = "ok"
    /\ pulls # <<>>
    /\ pulls[Len(pulls)].body = "d2"
    /\ \E j \in 1..Len(calls) :
          /\ calls[j].op = "chat.completions.create"
          /\ calls[j].arg.choices = <<"d2", "d1">>
    /\ Count(calls, "create_pull") = 1
    /\ prev.exit = None

\* C6: the repository identity handed to get_repo for the origin
\* https://host/owner/repo.git is the string "owner/repo".
C6_OwnerSlashName ==
    \A i \in 1..Len(calls) :
        calls[i].op = "get_repo" =>
            /\ calls[i].arg.type = "str"
            /\ calls[i].arg.val = origin.owner \o slash \o origin.name

\* the call log keeps the order of the workflow and stops at the first failure
C7_Order ==
    /\ \A i \in 1..Len(calls) :
          /\ calls[i].op = "push" =>
                \E j \in 1..(i - 1) : calls[j].op = "chat.completions.create" /\ calls[j].ok
          /\ calls[i].op \in {"get_repo", "create_pull"} =>
                \E j \in 1..(i - 1) : calls[j].op = "push" /\ calls[j].ok
          /\ calls[i].op = "create_pull" =>
                \E j \in 1..(i - 1) : calls[j].op = "get_repo" /\ calls[j].ok
    /\ \A i, j \in 1..Len(calls) :
          (i < j /\ ~calls[i].ok) => calls[j].op \notin WorkflowOps
    /\ Succeeded(calls, "push") => branch_name \in pushed
    /\ (pr_description = None) => ~(\E i \in 1..Len(calls) : calls[i].op = "push")

\* no step takes back what an earlier one did to the host
C7_NoUndo ==
    /\ pushed \subseteq pushed'
    /\ IsPrefix(pulls, pulls')
    /\ pulls' # pulls =>
          /\ pc = "create_pull"
          /\ Len(pulls') = Len(pulls) + 1
          /\ Succeeded(calls', "create_pull")

C8_LastTokenWins ==
    \A i \in 1..Len(config) :
        (/\ token # None
         /\ config[i].key = "GITHUB_TOKEN"
         /\ \A j \in (i + 1)..Len(config) : config[j].key # "GITHUB_TOKEN") =>
            token = config[i].value

\* the token of a run: the environment's if it sets one, else the file's last
C8_TokenOfRun ==
    token # None =>
        /\ os_environ["GITHUB_TOKEN"] # Unset => token = os_environ["GITHUB_TOKEN"]
        /\ os_environ["GITHUB_TOKEN"] = Unset =>
              \A i \in 1..Len(config) :
                  (/\ config[i].key = "GITHUB_TOKEN"
                   /\ \A j \in (i + 1)..Len(config) : config[j].key # "GITHUB_TOKEN") =>
                      token = config[i].value

\* the config file changes only by one appended line, written by a setup command
C8_AppendOnly ==
    config' # config =>
        /\ pc = "shell" /\ pc' = "shell"
        /\ Len(config') = Len(config) + 1
        /\ SubSeq(config', 1, Len(config)) = config
        /\ config'[Len(config')].key \in Keys
        /\ config_exists'

\* C8 as amended: the config file changes only by a setup command appending
\* one KEY=VALUE line to it (generate-pr never writes it, no line is removed
\* or rewritten), and the token a generate-pr run uses is the value of the last
\* GITHUB_TOKEN line provided the shell's environment does not already set
\* GITHUB_TOKEN; a value the environment sets, even an empty one, is used
\* instead.
C8_AppendOnlyLastWins == [](C8_TokenOfRun) /\ [][C8_AppendOnly]_vars

C8_Witness ==
    /\ Len(config) = 2
    /\ config[1] = [key |-> "GITHUB_TOKEN", value |-> "a"]
    /\ config[2] = [key |-> "GITHUB_TOKEN", value |-> "b"]
    /\ os_environ["GITHUB_TOKEN"] = Unset
    /\ token = "b"

C10_Cleanup ==
    (pc = "done" /\ diff \notin {None, ""}) =>
        /\ temp_file # "exists"
        /\ file_id # None =>
              \E i \in 1..Len(calls) : calls[i].op = "files.delete" /\ calls[i].arg = file_id
        /\ file_id = None => "files.delete" \notin Ops(calls)

====
